---- MODULE Spec2Model ----
(***************************************************************************)
(* Fleet charging planner: the allocation engine make_plan                 *)
(* (src/scheduler.py), the /plan request handler (src/main.py) with the    *)
(* price supplier (src/price_provider.py) and the alert Notifier           *)
(* (src/notifications.py).                                                 *)
(*                                                                         *)
(* Numbers.  A Python float is an IEEE 754 binary64 value, the record       *)
(* [s, m, e] standing for s * m * 2^e, m a number of at most 53 bits held  *)
(* as 15-bit limbs, lowest first; every operation rounds to nearest, ties  *)
(* to even, as the hardware does, overflows to infinity and underflows     *)
(* through the subnormals; NaN and the infinities are values and           *)
(* propagate as in IEEE 754, comparisons with NaN are false.  -0.0 is not  *)
(* told from 0.0 (Python's comparisons do not either).  Float[n, d] is the *)
(* float a decimal literal n/d denotes (0.15 is Float[3, 20]), I[n] the    *)
(* float of the integer n.  The operations are functions: FAdd[a, b] is    *)
(* a + b.  Optional[float] is None == <<>> or a float.                     *)
(* Identities.  The explanations of a plan are keyed by vehicle id; the     *)
(* vehicles of a call have distinct ids but for one plan of                *)
(* RepeatedIdPlans, and charger ids and a route's vehicle id may repeat    *)
(* (the dictionaries make_plan builds keep the last entry).                *)
(* Time.  A datetime is a wall-clock reading in whole milliseconds         *)
(* (datetime counts microseconds, 1000 to the millisecond) with its        *)
(* tzinfo, None or a fixed offset from UTC; timedelta.total_seconds() is   *)
(* the float of the difference divided by 1000.  Subtracting or ordering   *)
(* a naive and an aware datetime raises TypeError.                         *)
(***************************************************************************)
EXTENDS Integers, Sequences, FiniteSets, TLC

VARIABLES
    entry,          \* which entry point is running: "make_plan", "plan", "should_delay"
    pc,             \* position inside the running entry point
    now, vehicles, chargers, routes, prices, site_max_kw,   \* make_plan arguments
    eligible,       \* make_plan: the sorted list of (v, ch, rt) triples
    pos,            \* make_plan: number of eligible triples the loop has taken
    remaining_kw,   \* make_plan: the running site budget
    commands, alerts, explanations,                         \* make_plan: outputs
    total_kw,       \* make_plan: PlanResult.total_kw (None until returned)
    visits,         \* history: locals of every loop iteration, in order
    req_prices,     \* /plan: the request's explicit prices
    day_fetch,      \* /plan: what PriceCache.get_prices_today does this call
    cur_fetch,      \* /plan: what PriceCache.get_current_price returns this call
    response,       \* "none"; /plan: "payload" (returned) or "cancelled"; "exception":
                    \* an exception has left make_plan or the /plan handler
    clients,        \* Notifier.clients
    bc_iter,        \* Notifier.broadcast: list-iterator index of `for c in self.clients`
    bc_cur,         \* Notifier.broadcast: the loop variable c (None outside the loop body)
    dead,           \* Notifier.broadcast: the local list `dead`
    sends,          \* history: number of send_json calls per listener
    stayed,         \* history: listeners subscribed since the broadcast began
    accepted,       \* history: every socket Notifier.connect has accepted
    dl_args,        \* should_delay_charging: the arguments of the call
    dl_result       \* should_delay_charging: <<>> before the call, <<return value>> after

planVars  == <<now, vehicles, chargers, routes, prices, site_max_kw>>
loopVars  == <<eligible, pos, remaining_kw, commands, alerts, explanations, total_kw, visits>>
reqVars   == <<req_prices, day_fetch, cur_fetch>>
notifVars == <<clients, bc_iter, bc_cur, dead, sends, stayed, accepted>>
dlVars    == <<dl_args, dl_result>>
vars == <<entry, pc, planVars, loopVars, reqVars, response, notifVars, dlVars>>

----------------------------------------------------------------------------
(* Float arithmetic: IEEE 754 binary64, as CPython's float.               *)

None == <<>>

(* Natural numbers of any size: little-endian sequences of 15-bit limbs,   *)
(* no leading zero limb; <<>> is 0.                                        *)
Base == 2^15
Limbs == Seq(0..(Base - 1))

Limb(a, i) == IF 1 <= i /\ i <= Len(a) THEN a[i] ELSE 0

Max(S) == CHOOSE i \in S : \A j \in S : j <= i

Abs(n) == IF n < 0 THEN -n ELSE n

\* a without its leading zero limbs
NNorm[a \in Limbs] == SubSeq(a, 1, Max({0} \cup {i \in 1..Len(a) : a[i] # 0}))

\* 0 <= n < 2^31
NFromInt[n \in Nat] == NNorm[<<n % Base, (n \div Base) % Base, n \div (Base * Base)>>]

\* Limbs i and up of a + sgn * b, c carried into limb i (a >= b when sgn is -1)
NSum[a \in Limbs, b \in Limbs, sgn \in {-1, 1}, i \in Nat, c \in {-1, 0, 1}] ==
    IF i > Len(a) /\ i > Len(b) THEN (IF c = 0 THEN <<>> ELSE <<c>>)
    ELSE <<(Limb(a, i) + sgn * Limb(b, i) + c) % Base>>
            \o NSum[a, b, sgn, i + 1, (Limb(a, i) + sgn * Limb(b, i) + c) \div Base]

NAdd[a \in Limbs, b \in Limbs] == NSum[a, b, 1, 1, 0]

\* a - b for a >= b
NSub[a \in Limbs, b \in Limbs] == NNorm[NSum[a, b, -1, 1, 0]]

\* -1, 0, 1 as a < b, a = b, a > b
NCmp[a \in Limbs, b \in Limbs] ==
    IF Len(a) # Len(b) THEN (IF Len(a) < Len(b) THEN -1 ELSE 1)
    ELSE LET D == {i \in 1..Len(a) : a[i] # b[i]}
         IN  IF D = {} THEN 0 ELSE IF a[Max(D)] < b[Max(D)] THEN -1 ELSE 1

\* Limbs i and up of a * k, c carried into limb i
NScale[a \in Limbs, k \in 0..(Base - 1), i \in Nat, c \in 0..(Base - 1)] ==
    IF i > Len(a) THEN (IF c = 0 THEN <<>> ELSE <<c>>)
    ELSE <<(a[i] * k + c) % Base>> \o NScale[a, k, i + 1, (a[i] * k + c) \div Base]

\* a * k
NMulSmall[a \in Limbs, k \in 0..(Base - 1)] == NNorm[NScale[a, k, 1, 0]]

\* a * Base
NTimesBase[a \in Limbs] == IF a = <<>> THEN a ELSE <<0>> \o a

\* a * (b[j] + b[j+1] * Base + ...)
NMulFrom[a \in Limbs, b \in Limbs, j \in Nat] ==
    IF j > Len(b) THEN <<>>
    ELSE NAdd[NMulSmall[a, b[j]], NTimesBase[NMulFrom[a, b, j + 1]]]

NMul[a \in Limbs, b \in Limbs] == NMulFrom[a, b, 1]

\* number of bits of n
BitLenSmall[n \in 0..(Base - 1)] == CHOOSE k \in 0..15 : n < 2^k /\ (k = 0 \/ 2^(k - 1) <= n)

NBitLen[a \in Limbs] == IF a = <<>> THEN 0 ELSE 15 * (Len(a) - 1) + BitLenSmall[a[Len(a)]]

\* a * Base^q * p for p = 2^r, r < 15
NShlBy(a, q, p) ==
    NNorm[SubSeq([i \in 1..(Len(a) + q + 1) |->
                    IF i <= q THEN 0
                    ELSE ((Limb(a, i - q) * p) % Base) + ((Limb(a, i - q - 1) * p) \div Base)],
                 1, Len(a) + q + 1)]

\* a * 2^k
NShl[a \in Limbs, k \in Nat] == NShlBy(a, k \div 15, 2^(k % 15))

\* floor(a / (Base^q * p)) for p = 2^r, r < 15
NShrBy(a, q, p) ==
    NNorm[SubSeq([i \in 1..Len(a) |->
                    (Limb(a, i + q) \div p) + (Limb(a, i + q + 1) % p) * (Base \div p)],
                 1, Len(a))]

\* floor(a / 2^k)
NShr[a \in Limbs, k \in Nat] == NShrBy(a, k \div 15, 2^(k % 15))

\* bit i of a, bit 0 the lowest
NBit(a, i) == (Limb(a, (i \div 15) + 1) \div 2^(i % 15)) % 2

\* the k lowest bits of a are all 0
NLowBitsZero(a, k) ==
    /\ \A i \in 1..(k \div 15) : Limb(a, i) = 0
    /\ Limb(a, (k \div 15) + 1) % 2^(k % 15) = 0

\* r * Base + d
NPush(r, d) == IF r = <<>> THEN (IF d = 0 THEN <<>> ELSE <<d>>) ELSE <<d>> \o r

\* the largest digit g <= guess with y * g <= r
NDigit[y \in Limbs, r \in Limbs, guess \in 0..(Base - 1)] ==
    IF NCmp[NMulSmall[y, guess], r] > 0 THEN NDigit[y, r, guess - 1] ELSE guess

\* A first guess, never too small, of floor(r / y) for r < y * Base, from
\* the top limbs; y's top limb is >= 2^14.
NGuess(y, r) ==
    IF (Limb(r, Len(y) + 1) * Base + Limb(r, Len(y))) \div y[Len(y)] < Base
      THEN (Limb(r, Len(y) + 1) * Base + Limb(r, Len(y))) \div y[Len(y)]
      ELSE Base - 1

NStepWith(y, r, g) == [g |-> g, r |-> NSub[r, NMulSmall[y, g]]]

\* One step of long division: the digit g = floor(r / y) and the remainder
NStep[y \in Limbs, r \in Limbs] == NStepWith(y, r, NDigit[y, r, NGuess(y, r)])

\* A step of the long division: the quotient digit found and the remainder left.
DivSteps == [g : 0..(Base - 1), r : Limbs]

\* Long division in base 2^15: the limbs x[i], ..., x[1] are still to be
\* brought down, st is the last step made, q the digits before it.
NDivFrom[x \in Limbs, y \in Limbs, i \in Nat, q \in Limbs, st \in DivSteps] ==
    IF i = 0 THEN [q |-> NNorm[<<st.g>> \o q], r |-> st.r]
    ELSE NDivFrom[x, y, i - 1, <<st.g>> \o q, NStep[y, NPush(st.r, x[i])]]

\* floor(x / y) and x mod y, for y with its top limb >= 2^14
NDivMod[x \in Limbs, y \in Limbs] == NDivFrom[x, y, Len(x), <<>>, [g |-> 0, r |-> <<>>]]

(* IEEE 754 binary64 values.  A finite value other than zero is s * m * 2^e *)
(* with s in {1, -1} and EMin <= e <= EMax: m has exactly 53 bits (normal),  *)
(* or fewer with e = EMin (subnormal).  Zero is [s 1, m <<>>, e 0].          *)
(* Infinity is [s, m 2^52, e EMax + 1], the 2^1024 that binary64 cannot      *)
(* hold, and NaN is [s 0, m <<>>, e 0].  Round to nearest, ties to even.     *)
Precision == 53
EMin == -1074
EMax == 971
Floats == [s : {-1, 0, 1}, m : Limbs, e : Int]

Zero  == [s |-> 1, m |-> <<>>, e |-> 0]
NaN   == [s |-> 0, m |-> <<>>, e |-> 0]

\* 2^52 and 2^53
Pow52 == <<0, 0, 0, 2^7>>
Pow53 == <<0, 0, 0, 2^8>>

\* float("inf"), and what an operation whose result is too large returns
Inf == [s |-> 1, m |-> Pow52, e |-> EMax + 1]

IsNaN(a) == a.s = 0
IsInf(a) == a.e > EMax

\* Dropping the sh > 0 low bits of n rounds upwards: the bits dropped (with
\* a non-zero tail behind them when sticky) are more than half a unit, or
\* exactly half and the part kept is odd.
RoundsUp(n, sh, sticky) ==
    NBit(n, sh - 1) = 1 /\ (sticky \/ ~NLowBitsZero(n, sh - 1) \/ NBit(n, sh) = 1)

\* s * q * 2^e for q <= 2^53 and e >= EMin: zero when nothing is left of q,
\* infinity when the exponent has passed EMax
FPack[s \in {-1, 1}, q \in Limbs, e \in Int] ==
    IF q = <<>> THEN Zero
    ELSE IF e + (IF q = Pow53 THEN 1 ELSE 0) > EMax THEN [Inf EXCEPT !.s = s]
    ELSE IF q = Pow53 THEN [s |-> s, m |-> Pow52, e |-> e + 1]
    ELSE [s |-> s, m |-> q, e |-> e]

\* s * n * 2^e with the sh low bits of n rounded away (sh <= 0: none, and n
\* is shifted up instead)
FRoundBy[s \in {-1, 1}, n \in Limbs, e \in Int, sticky \in BOOLEAN, sh \in Int] ==
    FPack[s,
          IF sh <= 0 THEN NShl[n, -sh]
          ELSE NAdd[NShr[n, sh], IF RoundsUp(n, sh, sticky) THEN <<1>> ELSE <<>>],
          e + sh]

\* s * (n + f) * 2^e rounded, where 0 < f < 1 iff sticky: 53 bits are kept,
\* fewer when that would take the exponent below EMin (gradual underflow)
FRound[s \in {-1, 1}, n \in Limbs, e \in Int, sticky \in BOOLEAN] ==
    IF n = <<>> THEN Zero
    ELSE FRoundBy[s, n, e, sticky,
                  IF NBitLen[n] - Precision < EMin - e THEN EMin - e ELSE NBitLen[n] - Precision]

\* float(n) for an int n, |n| < 2^31
I[n \in Int] == FRound[IF n < 0 THEN -1 ELSE 1, NFromInt[Abs(n)], 0, FALSE]

FNeg[a \in Floats] == IF a.m = <<>> THEN a ELSE [a EXCEPT !.s = -a.s]

\* abs(a)
FAbs[a \in Floats] == IF a.s = -1 THEN [a EXCEPT !.s = 1] ELSE a

\* sa * x * 2^e + sb * y * 2^e
FAddAligned(sa, x, sb, y, e) ==
    FRound[IF sa = sb \/ NCmp[x, y] >= 0 THEN sa ELSE sb,
           IF sa = sb THEN NAdd[x, y] ELSE IF NCmp[x, y] >= 0 THEN NSub[x, y] ELSE NSub[y, x],
           e, FALSE]

FAddAt(a, b, e) == FAddAligned(a.s, NShl[a.m, a.e - e], b.s, NShl[b.m, b.e - e], e)

\* a + b; inf + -inf is NaN.  With exponents 64 or more apart the smaller number
\* is under a quarter of a unit in the last place of the larger, and the sum
\* rounds to the larger.
FAdd[a \in Floats, b \in Floats] ==
    IF IsNaN(a) \/ IsNaN(b) THEN NaN
    ELSE IF IsInf(a) THEN (IF IsInf(b) /\ a.s # b.s THEN NaN ELSE a)
    ELSE IF IsInf(b) \/ a.m = <<>> THEN b
    ELSE IF b.m = <<>> \/ a.e - b.e >= 64 THEN a
    ELSE IF b.e - a.e >= 64 THEN b
    ELSE FAddAt(a, b, IF a.e < b.e THEN a.e ELSE b.e)

FSub[a \in Floats, b \in Floats] == FAdd[a, FNeg[b]]

\* a * b; inf * 0 is NaN
FMul[a \in Floats, b \in Floats] ==
    IF IsNaN(a) \/ IsNaN(b) THEN NaN
    ELSE IF IsInf(a) \/ IsInf(b)
      THEN (IF a.m = <<>> \/ b.m = <<>> THEN NaN ELSE [Inf EXCEPT !.s = a.s * b.s])
    ELSE IF a.m = <<>> \/ b.m = <<>> THEN Zero
    ELSE FRound[a.s * b.s, NMul[a.m, b.m], a.e + b.e, FALSE]

FQuotOf(s, d, e) == FRound[s, d.q, e, d.r # <<>>]

\* s * (x / y) * 2^e rounded, from the quotient of x * 2^k by y; sh brings
\* the top limb of y up to 2^14
FQuotBy(s, x, y, e, k, sh) == FQuotOf(s, NDivMod[NShl[x, k + sh], NShl[y, sh]], e - k)

\* s * (x / y) * 2^e rounded, x > 0, y > 0: a quotient of at least 55 bits
FQuot[s \in {-1, 1}, x \in Limbs, y \in Limbs, e \in Int] ==
    FQuotBy(s, x, y, e,
            IF NBitLen[x] < Precision + 2 + NBitLen[y] THEN Precision + 2 + NBitLen[y] - NBitLen[x] ELSE 0,
            15 - BitLenSmall[y[Len(y)]])

\* a / b for b other than zero (Python raises ZeroDivisionError on a zero
\* divisor; the planner's divisors are 60.0, 1000.0 and max(hours, 1e-6));
\* inf / inf is NaN
FDiv[a \in Floats, b \in Floats] ==
    IF IsNaN(a) \/ IsNaN(b) THEN NaN
    ELSE IF IsInf(a) THEN (IF IsInf(b) THEN NaN ELSE [Inf EXCEPT !.s = a.s * b.s])
    ELSE IF IsInf(b) \/ a.m = <<>> THEN Zero
    ELSE FQuot[a.s * b.s, a.m, b.m, a.e - b.e]

FSign(a) == IF a.m = <<>> THEN 0 ELSE a.s

\* -1, 0, 1 as a < b, a = b, a > b, for a and b other than NaN
FCmp[a \in Floats, b \in Floats] ==
    IF FSign(a) # FSign(b) THEN (IF FSign(a) < FSign(b) THEN -1 ELSE 1)
    ELSE IF a.e # b.e THEN (IF a.e < b.e THEN -a.s ELSE a.s)
    ELSE FSign(a) * NCmp[a.m, b.m]

\* a <= b and a < b: false when either is NaN
FLe[a \in Floats, b \in Floats] == ~IsNaN(a) /\ ~IsNaN(b) /\ FCmp[a, b] <= 0
FLt[a \in Floats, b \in Floats] == ~IsNaN(a) /\ ~IsNaN(b) /\ FCmp[a, b] < 0

\* Python's min(a, b) and max(a, b): the first argument unless the second is
\* strictly smaller (larger), so a NaN in first place stays
FMin[a \in Floats, b \in Floats] == IF FLt[b, a] THEN b ELSE a
FMax[a \in Floats, b \in Floats] == IF FLt[a, b] THEN b ELSE a

\* The float a decimal literal n/d denotes: the quotient, correctly rounded.
Float[n \in Int, d \in Int \ {0}] ==
    IF n = 0 THEN Zero
    ELSE FQuot[IF (n < 0) = (d < 0) THEN 1 ELSE -1, NFromInt[Abs(n)], NFromInt[Abs(d)], 0]

\* The largest finite float and the smallest float above zero
MaxFloat     == [s |-> 1, m |-> <<Base - 1, Base - 1, Base - 1, 2^8 - 1>>, e |-> EMax]
MinSubnormal == [s |-> 1, m |-> <<1>>, e |-> EMin]

----------------------------------------------------------------------------
(* src/scheduler.py: helpers.                                              *)

clamp(x, lo, hi) == FMax[lo, FMin[hi, x]]

\* A datetime: ms is the wall-clock reading, tzinfo is None (naive) or a fixed
\* offset from UTC in milliseconds.
DateTime(ms, tzinfo) == [ms |-> ms, tzinfo |-> tzinfo]

\* `a - b`, `a <= b`: TypeError when one datetime is naive and the other aware.
Mixed(a, b) == (a.tzinfo = None) # (b.tzinfo = None)

\* `a - b` in milliseconds: the wall-clock readings of two naive datetimes, the
\* UTC instants of two aware ones.
Sub(a, b) ==
    (a.ms - (IF a.tzinfo = None THEN 0 ELSE a.tzinfo.utcoffset))
      - (b.ms - (IF b.tzinfo = None THEN 0 ELSE b.tzinfo.utcoffset))

\* (a - b).total_seconds() for datetimes d milliseconds apart
total_seconds[d \in Int] == Float[d, 1000]

\* Index of the first point closest to ts (Python min with a key).
RECURSIVE ClosestIdx(_, _, _, _)
ClosestIdx(ps, ts, i, best) ==
    IF i > Len(ps) THEN best
    ELSE ClosestIdx(ps, ts, i + 1,
                    IF FLt[FAbs[total_seconds[Sub(ps[i].ts, ts)]],
                           FAbs[total_seconds[Sub(ps[best].ts, ts)]]]
                      THEN i ELSE best)

price_at(ps, ts) ==
    IF ps = <<>> THEN None ELSE ps[ClosestIdx(ps, ts, 1, 1)].eur_per_kwh

\* min(window): the first element, replaced by every later one strictly smaller
RECURSIVE FMinFrom(_, _, _)
FMinFrom(s, i, least) == IF i > Len(s) THEN least ELSE FMinFrom(s, i + 1, FMin[least, s[i]])

RECURSIVE Window(_, _, _)
Window(ps, start, end) ==
    IF ps = <<>> THEN <<>>
    ELSE (IF Sub(start, Head(ps).ts) <= 0 /\ Sub(Head(ps).ts, end) <= 0
            THEN <<Head(ps).eur_per_kwh>> ELSE <<>>) \o Window(Tail(ps), start, end)

min_price_until(ps, start, end) ==
    IF ps = <<>> THEN None
    ELSE LET window == Window(ps, start, end)
         IN  IF window = <<>> THEN None ELSE FMinFrom(window, 2, window[1])

DelayMargin == Float[3, 20]        \* delay_margin = 0.15
One == I[1]                        \* 1.0
Sixty == I[60]                     \* 60.0
UrgencyMinutes == Sixty            \* urgency_minutes = 60.0

\* Mutant: the urgency gate tests `<` instead of `<=`.
should_delay_charging_strict(price_now, best_future_price, minutes_to_start, deficit_soc) ==
    IF FLe[deficit_soc, Zero] THEN FALSE
    ELSE IF FLt[minutes_to_start, UrgencyMinutes] THEN FALSE
    ELSE IF price_now = None \/ best_future_price = None THEN FALSE
    ELSE FLt[FMul[best_future_price, FAdd[One, DelayMargin]], price_now]

should_delay_charging(price_now, best_future_price, minutes_to_start, deficit_soc) ==
    IF FLe[deficit_soc, Zero] THEN FALSE
    ELSE IF FLe[minutes_to_start, UrgencyMinutes] THEN FALSE
    ELSE IF price_now = None \/ best_future_price = None THEN FALSE
    ELSE FLt[FMul[best_future_price, FAdd[One, DelayMargin]], price_now]

SocHigh     == Float[4, 5]         \* 0.80
SocVeryHigh == Float[23, 25]       \* 0.92
TempHot == I[40]                   \* 40
SocHighFactor     == Float[1, 2]   \* kw *= 0.5
SocVeryHighFactor == Float[3, 10]  \* kw *= 0.3
TempHotFactor     == Float[1, 2]   \* kw *= 0.5

\* Mutant: the 0.92 tier replaces the 0.80 tier instead of compounding with it.
battery_friendly_kw_tiers(vehicle, charger, requested_kw) ==
    LET kw1 == IF FLe[SocHigh, vehicle.soc] THEN FMul[requested_kw, SocHighFactor] ELSE requested_kw
        kw2 == IF FLe[SocVeryHigh, vehicle.soc] THEN FMul[requested_kw, SocVeryHighFactor] ELSE kw1
        kw3 == IF FLe[TempHot, vehicle.temp_c] THEN FMul[kw2, TempHotFactor] ELSE kw2
    IN  clamp(kw3, Zero, charger.max_kw)

battery_friendly_kw(vehicle, charger, requested_kw) ==
    LET kw1 == IF FLe[SocHigh, vehicle.soc] THEN FMul[requested_kw, SocHighFactor] ELSE requested_kw
        kw2 == IF FLe[SocVeryHigh, vehicle.soc] THEN FMul[kw1, SocVeryHighFactor] ELSE kw1
        kw3 == IF FLe[TempHot, vehicle.temp_c] THEN FMul[kw2, TempHotFactor] ELSE kw2
    IN  clamp(kw3, Zero, charger.max_kw)

UrgencyHorizon == I[180]          \* 180.0
UrgencyWeight == I[1000]          \* 1000.0

\* Mutant: the imminence term is not floored at 0.
compute_urgency_unfloored(vehicle, route, t) ==
    LET time_to_start == FDiv[total_seconds[Sub(route.start_time, t)], Sixty]
        deficit_soc   == FMax[Zero, FSub[route.required_soc_min, vehicle.soc]]
    IN  FAdd[FMul[deficit_soc, UrgencyWeight], FSub[UrgencyHorizon, time_to_start]]

compute_urgency(vehicle, route, t) ==
    LET time_to_start == FDiv[total_seconds[Sub(route.start_time, t)], Sixty]
        deficit_soc   == FMax[Zero, FSub[route.required_soc_min, vehicle.soc]]
    IN  FAdd[FMul[deficit_soc, UrgencyWeight], FMax[Zero, FSub[UrgencyHorizon, time_to_start]]]

----------------------------------------------------------------------------
(* src/scheduler.py make_plan: lookups, filtering and ordering.            *)

NoCharger == ""                 \* charger_id None (or empty): `not v.charger_id`

\* charger_by_id = {c.id: c for c in chargers}: the last entry with the id wins.
HasCharger(id) == \E i \in 1..Len(chargers) : chargers[i].id = id
charger_by_id(id) ==
    chargers[CHOOSE i \in 1..Len(chargers) :
                /\ chargers[i].id = id
                /\ \A j \in (i + 1)..Len(chargers) : chargers[j].id # id]

\* route_by_vehicle = {r.vehicle_id: r for r in routes}
HasRoute(vid) == \E i \in 1..Len(routes) : routes[i].vehicle_id = vid
route_by_vehicle(vid) ==
    routes[CHOOSE i \in 1..Len(routes) :
                /\ routes[i].vehicle_id = vid
                /\ \A j \in (i + 1)..Len(routes) : routes[j].vehicle_id # vid]

\* Mutant: the charger's enabled flag is not checked.
IgnoreReasonNoEnabled(v) ==
    IF v.state # "DISPONIVEL" THEN "estado"
    ELSE IF v.charger_id = NoCharger THEN "sem_carregador"
    ELSE IF ~HasCharger(v.charger_id) THEN "carregador_nao_existe"
    ELSE IF ~HasRoute(v.id) THEN "sem_rota"
    ELSE ""

\* The reason a vehicle is filtered out, "" when it is eligible.
IgnoreReason(v) ==
    IF v.state # "DISPONIVEL" THEN "estado"
    ELSE IF v.charger_id = NoCharger THEN "sem_carregador"
    ELSE IF ~HasCharger(v.charger_id) THEN "carregador_nao_existe"
    ELSE IF ~charger_by_id(v.charger_id).enabled THEN "carregador_desativado"
    ELSE IF ~HasRoute(v.id) THEN "sem_rota"
    ELSE ""

Put(f, k, val) == [x \in (DOMAIN f) \cup {k} |-> IF x = k THEN val ELSE f[x]]

\* The filtering loop: explanations of the vehicles filtered out.
RECURSIVE FilterExplanations(_, _)
FilterExplanations(vs, expl) ==
    IF vs = <<>> THEN expl
    ELSE LET v == Head(vs)
             r == IgnoreReason(v)
         IN  FilterExplanations(Tail(vs),
                IF r = "" THEN expl
                ELSE Put(expl, v.id, [status |-> "ignorado", motivo |-> r]))

\* The filtering loop: the eligible triples, in input order.
RECURSIVE FilterEligible(_)
FilterEligible(vs) ==
    IF vs = <<>> THEN <<>>
    ELSE LET v == Head(vs)
         IN  (IF IgnoreReason(v) = ""
                THEN <<[v |-> v, ch |-> charger_by_id(v.charger_id), rt |-> route_by_vehicle(v.id)]>>
                ELSE <<>>) \o FilterEligible(Tail(vs))

\* list.sort(key=..., reverse=True): stable, equal keys keep their order.
RECURSIVE InsertDesc(_, _)
InsertDesc(sorted, t) ==
    IF sorted = <<>> THEN <<t>>
    ELSE IF FLt[compute_urgency(Head(sorted).v, Head(sorted).rt, now),
                compute_urgency(t.v, t.rt, now)] THEN <<t>> \o sorted
    ELSE <<Head(sorted)>> \o InsertDesc(Tail(sorted), t)

RECURSIVE SortByUrgency(_)
SortByUrgency(ts) ==
    IF ts = <<>> THEN <<>>
    ELSE InsertDesc(SortByUrgency(SubSeq(ts, 1, Len(ts) - 1)), ts[Len(ts)])

----------------------------------------------------------------------------
(* src/scheduler.py make_plan: the locals of one loop iteration.           *)

Eps == Float[1, 1000000]           \* 1e-6
Tol == Float[1, 100]               \* 0.01

Deficit(t)   == FMax[Zero, FSub[t.rt.required_soc_min, t.v.soc]]
MinutesTo(t) == FDiv[total_seconds[Sub(t.rt.start_time, now)], Sixty]
PriceNow     == price_at(prices, now)
BestPrice(t) == min_price_until(prices, now, t.rt.start_time)
DelayApplied(t) == should_delay_charging(PriceNow, BestPrice(t), MinutesTo(t), Deficit(t))

\* Mutant: minutes are not converted to hours.
AvgKwNeededPerMinute(t) ==
    LET need_kwh == FMul[Deficit(t), t.v.battery_kwh]
        hours    == MinutesTo(t)
    IN  FDiv[need_kwh, FMax[hours, Eps]]

AvgKwNeeded(t) ==
    LET need_kwh == FMul[Deficit(t), t.v.battery_kwh]
        hours    == FDiv[MinutesTo(t), Sixty]
    IN  FDiv[need_kwh, FMax[hours, Eps]]

RequestedKw(t, rem) ==
    LET requested_kw == FMin[FMin[AvgKwNeeded(t), t.ch.max_kw], rem]
    IN  IF DelayApplied(t) THEN Zero ELSE clamp(requested_kw, Zero, t.ch.max_kw)

FinalKw(t, rem) == battery_friendly_kw(t.v, t.ch, RequestedKw(t, rem))

\* Mutant: only negative powers are skipped.
NoCommandOnlyNegative(final_kw) == FLt[final_kw, Zero]

\* `if final_kw <= 0.01: continue`
NoCommand(final_kw) == FLe[final_kw, Tol]

\* "planeado" if final_kw > 0.01 else "não_planeado"
StatusOf(final_kw) == IF FLt[Tol, final_kw] THEN "planeado" ELSE "nao_planeado"

\* `if remaining_kw <= 0.01: break`
BudgetExhausted(rem) == FLe[rem, Tol]

\* The entries of base_expl that are stored as computed (the rounded figures
\* soc_atual, soc_min_rota, minutos_ate_rota and restante_site_kw are left out).
BaseExpl(t) ==
    [vehicle_id |-> t.v.id, charger_id |-> t.ch.id, defice_soc |-> Deficit(t),
     price_now |-> PriceNow,
     best_price |-> BestPrice(t), price_delay_applied |-> DelayApplied(t)]

WithStatus(base, st, mo) ==
    [vehicle_id |-> base.vehicle_id, charger_id |-> base.charger_id,
     defice_soc |-> base.defice_soc,
     price_now |-> base.price_now, best_price |-> base.best_price,
     price_delay_applied |-> base.price_delay_applied, status |-> st, motivo |-> mo]

Visit(t, st, rem, req, fin) ==
    [vehicle_id |-> t.v.id, status |-> st, remaining_before |-> rem,
     requested_kw |-> req, final_kw |-> fin, delay_applied |-> DelayApplied(t)]

----------------------------------------------------------------------------
(* Inputs.                                                                 *)

MaxVehicles == 2

VehicleIds == <<"v1", "v2", "v3", "v4">>

Minute == 60000                 \* milliseconds

\* A route that starts so many minutes after the model's time 0, naive.
Route(start, req) == [start_time |-> DateTime(start * Minute, None), required_soc_min |-> req]

Battery == I[100]               \* kWh

\* A vehicle together with its route, if any (route is <<>> or <<Route>>);
\* temp is in whole degrees.
Case(st, cid, soc, temp, rt) ==
    [state |-> st, charger_id |-> cid, soc |-> soc, temp_c |-> I[temp],
     battery_kwh |-> Battery, route |-> rt]

\* A plugged, available vehicle given by its numbers.
Numbers(soc, temp_c, battery_kwh, rt) ==
    [state |-> "DISPONIVEL", charger_id |-> "c1", soc |-> soc, temp_c |-> temp_c,
     battery_kwh |-> battery_kwh, route |-> <<rt>>]

\* Available vehicles failing any combination of the charger and route conditions,
\* and vehicles on the road, plugged or not.
FilterCases ==
    { Case("DISPONIVEL", cid, Float[3, 10], 25, rt) :
        cid \in {NoCharger, "c1", "c2", "c3"},
        rt \in {<<>>, <<Route(120, Float[4, 5])>>} }
    \cup { Case("EM_ROTA", cid, Float[3, 10], 25, <<Route(120, Float[4, 5])>>) :
             cid \in {NoCharger, "c1"} }

\* Plugged, available vehicles with a route: deficits and deadlines.
SizingCases ==
    { Case("DISPONIVEL", "c1", Float[3, 10], 25, <<rt>>) :
        rt \in {Route(-10, Float[4, 5]), Route(30, I[1]), Route(120, Float[4, 5]),
                Route(120, I[1]), Route(240, I[1])} }
    \cup { Case("DISPONIVEL", "c1", Float[19, 20], 25, <<rt>>) :
             rt \in {Route(30, I[1]), Route(120, Float[4, 5]), Route(120, I[1])} }

\* One plugged, available vehicle with a deficit, around the curtailment thresholds.
CurtailCases ==
    { Case("DISPONIVEL", "c1", soc, temp, <<rt>>) :
        soc \in {Float[3, 10], Float[79, 100], Float[4, 5], Float[17, 20], Float[91, 100], Float[23, 25], Float[19, 20]},
        temp \in {25, 39, 40, 45},
        rt \in {Route(30, I[1]), Route(120, I[1])} }

Fleets(C) == UNION { [1..n -> C] : n \in 0..MaxVehicles }

MkVehicles(cs) ==
    [i \in 1..Len(cs) |->
        [id |-> VehicleIds[i], battery_kwh |-> cs[i].battery_kwh, soc |-> cs[i].soc,
         temp_c |-> cs[i].temp_c, state |-> cs[i].state, charger_id |-> cs[i].charger_id]]

RECURSIVE MkRoutesFrom(_, _)
MkRoutesFrom(cs, i) ==
    IF i > Len(cs) THEN <<>>
    ELSE (IF cs[i].route = <<>> THEN <<>>
          ELSE <<[vehicle_id |-> VehicleIds[i], start_time |-> cs[i].route[1].start_time,
                  required_soc_min |-> cs[i].route[1].required_soc_min]>>)
         \o MkRoutesFrom(cs, i + 1)

Charger(id, max, en) == [id |-> id, max_kw |-> I[max], enabled |-> en]

\* The one enabled charger c1 with the given max_kw.
OneCharger(max_kw) == <<[id |-> "c1", max_kw |-> max_kw, enabled |-> TRUE]>>

\* The table the fleets that compete for the site budget are planned against.
FleetChargers == <<Charger("c1", 50, TRUE), Charger("c2", 10, TRUE), Charger("c3", 50, FALSE)>>

ChargerTables == { FleetChargers, <<Charger("c2", 50, FALSE), Charger("c1", 10, TRUE)>> }

\* A price n/d at so many minutes after the model's time 0, naive.
PricePoint(ts, n, d) == [ts |-> DateTime(ts * Minute, None), eur_per_kwh |-> Float[n, d]]

PriceCurves ==
    { <<>>,
      <<PricePoint(0, 1, 5)>>,
      <<PricePoint(0, 3, 10), PricePoint(60, 1, 10)>>,
      <<PricePoint(60, 1, 10), PricePoint(0, 3, 10)>>,
      <<PricePoint(-30, 3, 10)>>,
      <<PricePoint(-30, 1, 10), PricePoint(30, 3, 10)>>,
      <<PricePoint(0, -1, 10)>>,
      <<PricePoint(0, 0, 1), PricePoint(60, -1, 10)>> }

ScenarioVehicle == Numbers(Float[3, 10], I[25], Battery, Route(120, Float[4, 5]))

\* The arguments of a call: a fleet with its routes, a charger table, a site cap.
Plan(cs, chs, site) ==
    [vehicles |-> MkVehicles(cs), routes |-> MkRoutesFrom(cs, 1), chargers |-> chs, site |-> site]

\* Plans on numbers at the edges of binary64: a NaN battery capacity; a deficit
\* that overflows to infinity on an empty battery; a NaN capacity on a charger
\* without limit, and on the largest charger under the most negative cap; a
\* charger limit of NaN; NaN state of charge, required state of charge and
\* temperature; an infinite, a NaN and a 2^54 kW site cap; a battery capacity at
\* the top of the range with the route a millisecond ahead; a charger limit of
\* three times the smallest subnormal, and of 2^-1021, with the battery at 0.95; a
\* site cap of 2^1022 kW.
EdgePlans ==
    { Plan(<<Numbers(Float[3, 10], I[25], NaN, Route(120, Float[4, 5])), ScenarioVehicle>>,
           OneCharger(I[50]), I[10]),
      Plan(<<Numbers(FNeg[MaxFloat], I[25], Zero, Route(120, MaxFloat))>>, OneCharger(I[50]), I[10]),
      Plan(<<Numbers(Float[3, 10], I[25], NaN, Route(120, Float[4, 5]))>>, OneCharger(Inf), I[10]),
      Plan(<<Numbers(Float[3, 10], I[25], NaN, Route(120, Float[4, 5]))>>,
           OneCharger(MaxFloat), FNeg[MaxFloat]),
      Plan(<<ScenarioVehicle>>, OneCharger(NaN), I[100]),
      Plan(<<Numbers(NaN, I[25], Battery, Route(120, Float[4, 5])),
             Numbers(Float[3, 10], I[25], Battery, Route(120, NaN)),
             Numbers(Float[3, 10], NaN, Battery, Route(30, I[1]))>>, OneCharger(I[50]), I[100]),
      Plan(<<ScenarioVehicle, ScenarioVehicle>>, OneCharger(I[50]), Inf),
      Plan(<<ScenarioVehicle, ScenarioVehicle>>, OneCharger(I[50]), NaN),
      Plan(<<ScenarioVehicle, ScenarioVehicle>>, OneCharger(I[50]),
           [s |-> 1, m |-> Pow52, e |-> 2]),
      Plan(<<Numbers(Float[3, 10], I[25], MaxFloat,
                     [Route(0, Float[4, 5]) EXCEPT !.start_time.ms = 1])>>,
           OneCharger(I[50]), I[100]),
      Plan(<<Numbers(Float[19, 20], I[25], Battery, Route(120, I[1]))>>,
           OneCharger(FMul[I[3], MinSubnormal]), I[100]),
      Plan(<<Numbers(Float[19, 20], I[25], Battery, Route(120, I[1]))>>,
           OneCharger([s |-> 1, m |-> Pow52, e |-> -1073]), I[100]),
      Plan(<<ScenarioVehicle, ScenarioVehicle>>, OneCharger(I[50]),
           [s |-> 1, m |-> Pow52, e |-> 970]) }

\* Plans with an id that occurs twice: charger c1 enabled and then disabled, and
\* the other way round; two routes for v1, the overdue one last, and first; a
\* vehicle v1 on the road followed by an available, plugged vehicle v1.
RepeatedIdPlans ==
    { Plan(<<ScenarioVehicle>>, <<Charger("c1", 50, TRUE), Charger("c1", 10, FALSE)>>, I[100]),
      Plan(<<ScenarioVehicle>>, <<Charger("c1", 50, FALSE), Charger("c1", 10, TRUE)>>, I[100]),
      [Plan(<<ScenarioVehicle>>, OneCharger(I[50]), I[100])
         EXCEPT !.routes = @ \o <<[vehicle_id |-> "v1", start_time |-> DateTime(-10 * Minute, None),
                                   required_soc_min |-> I[1]]>>],
      [Plan(<<ScenarioVehicle>>, OneCharger(I[50]), I[100])
         EXCEPT !.routes = <<[vehicle_id |-> "v1", start_time |-> DateTime(-10 * Minute, None),
                              required_soc_min |-> I[1]]>> \o @],
      [Plan(<<Case("EM_ROTA", NoCharger, Float[3, 10], 25, <<>>), ScenarioVehicle>>,
            OneCharger(I[50]), I[100])
         EXCEPT !.vehicles[2].id = "v1", !.routes[1].vehicle_id = "v1"] }

----------------------------------------------------------------------------
(* Initial states: one call of one entry point.                            *)

LoopInit ==
    /\ eligible = <<>> /\ pos = 0 /\ remaining_kw = Zero
    /\ commands = <<>> /\ alerts = <<>> /\ explanations = <<>>
    /\ total_kw = None /\ visits = <<>>

IdleNotifier ==
    /\ clients = <<>> /\ bc_iter = 0 /\ bc_cur = None /\ dead = <<>>
    /\ sends = <<>> /\ stayed = {} /\ accepted = {}

\* A direct call make_plan(now, vehicles, chargers, routes, prices, site), all
\* datetimes naive.  The fifth family are fleets whose plan depends on how the
\* float operations round: two deficits of 0.3 that differ in the last bit
\* (0.5 - 0.2 and 1.0 - 0.7), two vehicles needing 25 kW each, and a vehicle that
\* can wait for a price ahead of one that cannot; they are planned under a site
\* cap of 10 that two vehicles share and one of 25.01 that leaves
\* 25.01 - 25.0 > 0.01 behind, without prices and with 0.23 now against 0.20
\* later (0.20 * (1.0 + 0.15) rounds below 0.23).  The sixth is a deficit of 1e-7
\* of the battery with the route 1, 3 or 4 milliseconds ahead: below 3.6 ms the
\* hours left are under the 1e-6 that avg_kw_needed divides by.
InitMakePlan ==
    /\ entry = "make_plan" /\ pc = "filter" /\ response = "none"
    /\ now = DateTime(0, None)
    /\ \/ \E cs \in Fleets(FilterCases) :
            /\ vehicles = MkVehicles(cs) /\ routes = MkRoutesFrom(cs, 1)
            /\ chargers \in ChargerTables
            /\ prices = <<>>
            /\ site_max_kw = I[30]
       \/ \E cs \in Fleets(SizingCases) :
            /\ vehicles = MkVehicles(cs) /\ routes = MkRoutesFrom(cs, 1)
            /\ chargers = FleetChargers
            /\ prices = <<>>
            /\ site_max_kw \in {I[-5], I[30], I[100]}
       \/ \E c \in SizingCases :
            /\ vehicles = MkVehicles(<<c>>) /\ routes = MkRoutesFrom(<<c>>, 1)
            /\ chargers \in ChargerTables
            /\ prices \in PriceCurves
            /\ site_max_kw \in {I[-5], I[30], I[100]}
       \/ \E c \in CurtailCases :
            /\ vehicles = MkVehicles(<<c>>) /\ routes = MkRoutesFrom(<<c>>, 1)
            /\ chargers \in ChargerTables
            /\ prices = <<>>
            /\ site_max_kw \in {I[-5], I[30], I[100]}
       \/ \E cs \in
              { << Case("DISPONIVEL", "c1", Float[1, 5], 25, <<Route(240, Float[1, 2])>>),
                   Case("DISPONIVEL", "c1", Float[7, 10], 25, <<Route(240, I[1])>>) >>,
                << Case("DISPONIVEL", "c1", Float[3, 10], 25, <<Route(120, Float[4, 5])>>),
                   Case("DISPONIVEL", "c1", Float[3, 10], 25, <<Route(240, Float[4, 5])>>) >>,
                << Case("DISPONIVEL", "c1", Float[3, 10], 25, <<Route(120, I[1])>>),
                   Case("DISPONIVEL", "c1", Float[3, 10], 25, <<Route(30, Float[4, 5])>>) >> } :
            /\ vehicles = MkVehicles(cs) /\ routes = MkRoutesFrom(cs, 1)
            /\ chargers \in ChargerTables
            /\ prices \in { <<>>, <<PricePoint(0, 23, 100), PricePoint(60, 1, 5)>> }
            /\ site_max_kw \in {I[10], Float[2501, 100]}
       \/ \E c \in { Numbers(Float[7999999, 10000000], I[25], Battery,
                              [Route(0, Float[4, 5]) EXCEPT !.start_time.ms = ms]) :
                        ms \in {1, 3, 4} } :
            /\ vehicles = MkVehicles(<<c>>) /\ routes = MkRoutesFrom(<<c>>, 1)
            /\ chargers \in ChargerTables
            /\ prices = <<>>
            /\ site_max_kw \in {I[-5], I[30], I[100]}
    /\ LoopInit /\ IdleNotifier
    /\ req_prices = <<>> /\ day_fetch = "unused" /\ cur_fetch = "unused"
    /\ dl_args = <<>> /\ dl_result = <<>>

\* A direct call of make_plan on numbers at the edges of binary64, or with repeated ids.
InitEdgePlan ==
    /\ entry = "make_plan" /\ pc = "filter" /\ response = "none"
    /\ now = DateTime(0, None)
    /\ \E p \in EdgePlans \cup RepeatedIdPlans :
          /\ vehicles = p.vehicles /\ routes = p.routes
          /\ chargers = p.chargers
          /\ site_max_kw = p.site
    /\ prices = <<>>
    /\ LoopInit /\ IdleNotifier
    /\ req_prices = <<>> /\ day_fetch = "unused" /\ cur_fetch = "unused"
    /\ dl_args = <<>> /\ dl_result = <<>>

\* The routes and the price points with their datetimes in the given time zone.
InTz(xs, field, tzinfo) ==
    [i \in 1..Len(xs) |-> [xs[i] EXCEPT ![field] = [@ EXCEPT !.tzinfo = tzinfo]]]

\* A direct call of make_plan with now, the route starts and the price
\* timestamps each naive, in UTC or in +01:00: one vehicle with a
\* deficit and its route at 120 or 30 minutes past midnight, one with SoC enough,
\* one on the road, or none; without prices, and with a price curve.
InitAwarePlan ==
    /\ entry = "make_plan" /\ pc = "filter" /\ response = "none"
    /\ \E tz_now, tz_routes, tz_prices \in
            {None, [utcoffset |-> 0], [utcoffset |-> 60 * Minute]} :
       \E c \in { <<ScenarioVehicle>>,
                  <<Case("DISPONIVEL", "c1", Float[3, 10], 25, <<Route(30, Float[4, 5])>>)>>,
                  <<Case("DISPONIVEL", "c1", Float[9, 10], 25, <<Route(120, Float[4, 5])>>)>>,
                  <<Case("EM_ROTA", "c1", Float[3, 10], 25, <<Route(120, Float[4, 5])>>)>>,
                  <<>> } :
       \E ps \in { <<>>, <<PricePoint(0, 3, 10), PricePoint(60, 1, 10)>> } :
          /\ now = DateTime(0, tz_now)
          /\ vehicles = MkVehicles(c)
          /\ routes = InTz(MkRoutesFrom(c, 1), "start_time", tz_routes)
          /\ prices = InTz(ps, "ts", tz_prices)
    /\ chargers = OneCharger(I[50])
    /\ site_max_kw = I[100]
    /\ LoopInit /\ IdleNotifier
    /\ req_prices = <<>> /\ day_fetch = "unused" /\ cur_fetch = "unused"
    /\ dl_args = <<>> /\ dl_result = <<>>

----------------------------------------------------------------------------
(* make_plan, src/scheduler.py lines 90-220.                               *)

\* Line 129: the sort calls compute_urgency on every eligible triple, and
\* `route.start_time - now` (line 85) raises TypeError on the first one whose
\* route start is aware while now is naive, or naive while now is aware.
SortRaises ==
    \E k \in 1..Len(FilterEligible(vehicles)) :
        Mixed(FilterEligible(vehicles)[k].rt.start_time, now)

\* Lines 98-129: dictionaries, filtering loop; the sort raises, and the
\* exception leaves make_plan (and the /plan handler that called it).
FilterRaises ==
    /\ pc = "filter"
    /\ SortRaises
    /\ response' = "exception"
    /\ pc' = "done"
    /\ UNCHANGED <<entry, planVars, loopVars, reqVars, notifVars, dlVars>>

\* Lines 98-131: dictionaries, filtering loop, sort, remaining_kw.
Filter ==
    /\ pc = "filter"
    /\ ~SortRaises
    /\ explanations' = FilterExplanations(vehicles, <<>>)
    /\ eligible' = SortByUrgency(FilterEligible(vehicles))
    /\ remaining_kw' = site_max_kw
    /\ pc' = "loop"
    /\ UNCHANGED <<entry, planVars, pos, commands, alerts, total_kw, visits,
                   reqVars, response, notifVars, dlVars>>

Cur == eligible[pos + 1]

\* Line 139: price_at takes `p.ts - ts` (line 36) of every price point, and
\* raises TypeError on the first one that is aware while now is naive, or naive
\* while now is aware.
PriceAtRaises == \E i \in 1..Len(prices) : Mixed(prices[i].ts, now)

\* Lines 134-139: the loop takes a triple and price_at raises.
PlanRaises ==
    /\ pc = "loop" /\ pos < Len(eligible)
    /\ PriceAtRaises
    /\ response' = "exception"
    /\ pc' = "done"
    /\ UNCHANGED <<entry, planVars, loopVars, reqVars, notifVars, dlVars>>

\* Lines 134-141: the loop takes a triple and its prices are looked up. (Past
\* price_at, min_price_until compares datetimes that all are naive, or all aware.)
InLoop == pc = "loop" /\ pos < Len(eligible) /\ ~PriceAtRaises

\* Lines 161-163: enough SoC already.
PlanOk ==
    /\ InLoop
    /\ FLe[Deficit(Cur), Zero]
    /\ explanations' = Put(explanations, Cur.v.id, WithStatus(BaseExpl(Cur), "ok", "soc_suficiente"))
    /\ visits' = Append(visits, Visit(Cur, "ok", remaining_kw, None, None))
    /\ pos' = pos + 1
    /\ UNCHANGED <<entry, pc, planVars, eligible, remaining_kw, commands, alerts, total_kw,
                   reqVars, response, notifVars, dlVars>>

\* Lines 165-169: the route should already have started.
PlanOverdue ==
    /\ InLoop
    /\ ~FLe[Deficit(Cur), Zero]
    /\ FLe[MinutesTo(Cur), Zero]
    /\ alerts' = Append(alerts, [kind |-> "rota_atrasada", vehicle_id |-> Cur.v.id])
    /\ explanations' = Put(explanations, Cur.v.id, WithStatus(BaseExpl(Cur), "erro", "rota_atrasada"))
    /\ visits' = Append(visits, Visit(Cur, "erro", remaining_kw, None, None))
    /\ pos' = pos + 1
    /\ UNCHANGED <<entry, pc, planVars, eligible, remaining_kw, commands, total_kw,
                   reqVars, response, notifVars, dlVars>>

Sized == InLoop /\ ~FLe[Deficit(Cur), Zero] /\ ~FLe[MinutesTo(Cur), Zero]

\* Lines 171-200: sized, but final_kw <= 0.01: no command.
PlanNotPlanned ==
    /\ Sized
    /\ NoCommand(FinalKw(Cur, remaining_kw))
    /\ explanations' = Put(explanations, Cur.v.id,
                            WithStatus(BaseExpl(Cur), StatusOf(FinalKw(Cur, remaining_kw)), "potencia"))
    /\ visits' = Append(visits, Visit(Cur, StatusOf(FinalKw(Cur, remaining_kw)), remaining_kw,
                                      RequestedKw(Cur, remaining_kw), FinalKw(Cur, remaining_kw)))
    /\ pos' = pos + 1
    /\ UNCHANGED <<entry, pc, planVars, eligible, remaining_kw, commands, alerts, total_kw,
                   reqVars, response, notifVars, dlVars>>

\* Mutant: the budget is decremented by requested_kw instead of final_kw.
PlanCommandConsumesRequested ==
    /\ Sized
    /\ LET final_kw == FinalKw(Cur, remaining_kw)
       IN  /\ ~NoCommand(final_kw)
           /\ explanations' = Put(explanations, Cur.v.id,
                                   WithStatus(BaseExpl(Cur), StatusOf(final_kw), "potencia"))
           /\ visits' = Append(visits, Visit(Cur, StatusOf(final_kw), remaining_kw,
                                             RequestedKw(Cur, remaining_kw), final_kw))
           /\ remaining_kw' = FSub[remaining_kw, RequestedKw(Cur, remaining_kw)]
           /\ commands' = Append(commands, [vehicle_id |-> Cur.v.id, charger_id |-> Cur.ch.id,
                                            set_kw |-> final_kw])
           /\ alerts' = IF FLt[Cur.v.soc, Cur.rt.required_soc_min] /\ FLt[MinutesTo(Cur), Sixty]
                          THEN Append(alerts, [kind |-> "critico", vehicle_id |-> Cur.v.id])
                          ELSE alerts
           /\ pc' = IF BudgetExhausted(remaining_kw') THEN "assemble" ELSE "loop"
    /\ pos' = pos + 1
    /\ UNCHANGED <<entry, planVars, eligible, total_kw, reqVars, response, notifVars, dlVars>>

\* Lines 171-217: sized, command appended, budget decremented, maybe break.
PlanCommand ==
    /\ Sized
    /\ LET final_kw == FinalKw(Cur, remaining_kw)
       IN  /\ ~NoCommand(final_kw)
           /\ explanations' = Put(explanations, Cur.v.id,
                                   WithStatus(BaseExpl(Cur), StatusOf(final_kw), "potencia"))
           /\ visits' = Append(visits, Visit(Cur, StatusOf(final_kw), remaining_kw,
                                             RequestedKw(Cur, remaining_kw), final_kw))
           /\ remaining_kw' = FSub[remaining_kw, final_kw]
           /\ commands' = Append(commands, [vehicle_id |-> Cur.v.id, charger_id |-> Cur.ch.id,
                                            set_kw |-> final_kw])
           /\ alerts' = IF FLt[Cur.v.soc, Cur.rt.required_soc_min] /\ FLt[MinutesTo(Cur), Sixty]
                          THEN Append(alerts, [kind |-> "critico", vehicle_id |-> Cur.v.id])
                          ELSE alerts
           /\ pc' = IF BudgetExhausted(remaining_kw') THEN "assemble" ELSE "loop"
    /\ pos' = pos + 1
    /\ UNCHANGED <<entry, planVars, eligible, total_kw, reqVars, response, notifVars, dlVars>>

\* Lines 219-220: total_kw and the PlanResult.
PlanReturn ==
    /\ pc = "assemble" \/ (pc = "loop" /\ pos = Len(eligible))
    /\ total_kw' = FSub[site_max_kw, remaining_kw]
    /\ pc' = "planned"
    /\ UNCHANGED <<entry, planVars, eligible, pos, remaining_kw, commands, alerts,
                   explanations, visits, reqVars, response, notifVars, dlVars>>

MakePlan ==
    \/ Filter \/ FilterRaises \/ PlanRaises \/ PlanOk \/ PlanOverdue \/ PlanNotPlanned
    \/ PlanCommand \/ PlanReturn

----------------------------------------------------------------------------
(* POST /plan, src/main.py lines 130-202, with PriceCache                  *)
(* (src/price_provider.py) and Notifier (src/notifications.py).            *)

MaxClients == 2

Websockets == {"w1", "w2", "w3"}

RECURSIVE SeqToSet(_)
SeqToSet(s) == IF s = <<>> THEN {} ELSE {Head(s)} \cup SeqToSet(Tail(s))

\* Fleets whose plan has an alert: an overdue route, a critical vehicle.
AlertFleets ==
    { <<Case("DISPONIVEL", "c1", Float[3, 10], 25, <<Route(-10, Float[4, 5])>>)>>,
      <<Case("DISPONIVEL", "c1", Float[3, 10], 25, <<Route(30, I[1])>>),
        Case("DISPONIVEL", "c1", Float[3, 10], 25, <<Route(120, I[1])>>)>> }

RequestFleets ==
    { <<>>,
      <<Case("DISPONIVEL", "c1", Float[3, 10], 25, <<Route(120, Float[4, 5])>>)>> }
    \cup AlertFleets

DefaultPrice == Float[1, 5]        \* 0.20

\* PriceCache.get_prices_today: each point divided by 1000.
get_prices_today(pts_mwh) ==
    [i \in 1..Len(pts_mwh) |-> <<pts_mwh[i][1], FDiv[pts_mwh[i][2], I[1000]]>>]

\* _closest_price_eur_kwh: best_price_mwh / 1000.0
closest_price_eur_kwh(best_price_mwh) == FDiv[best_price_mwh, I[1000]]

\* main.py lines 152-158: EnergyPricePoint(ts=ts.replace(tzinfo=None),
\* eur_per_kwh=float(eur_kwh)) for every point.
ToPricePoints(pts) ==
    [i \in 1..Len(pts) |-> [ts |-> DateTime(pts[i][1], None), eur_per_kwh |-> pts[i][2]]]

\* A request: req.now, the routes' start times and the explicit prices'
\* timestamps arrive naive, in UTC or in +01:00, as the JSON gives them; the
\* client lists are lists of distinct connected sockets, as earlier connects
\* and disconnects leave them.
InitPlanRequest ==
    /\ entry = "plan" /\ pc = "resolve" /\ response = "none"
    /\ \/ \E cs \in RequestFleets :
            /\ now = DateTime(0, None)
            /\ vehicles = MkVehicles(cs) /\ routes = MkRoutesFrom(cs, 1)
            /\ req_prices \in { <<>>, <<PricePoint(0, 1, 5)>>,
                                <<PricePoint(0, 3, 10), PricePoint(60, 1, 10)>> }
            /\ clients = <<>>
       \/ \E cs \in RequestFleets :
          \E tz_now, tz_routes, tz_prices \in
                {None, [utcoffset |-> 0], [utcoffset |-> 60 * Minute]} :
            /\ now = DateTime(0, tz_now)
            /\ vehicles = MkVehicles(cs)
            /\ routes = InTz(MkRoutesFrom(cs, 1), "start_time", tz_routes)
            /\ req_prices \in { <<>>, InTz(<<PricePoint(0, 1, 5)>>, "ts", tz_prices) }
            /\ clients = <<>>
       \/ \E cs \in AlertFleets :
            /\ now = DateTime(0, None)
            /\ vehicles = MkVehicles(cs) /\ routes = MkRoutesFrom(cs, 1)
            /\ req_prices = <<PricePoint(0, 1, 5)>>
            /\ clients \in { cl \in UNION { [1..n -> Websockets] : n \in 0..MaxClients } :
                                \A i, j \in 1..Len(cl) : i # j => cl[i] # cl[j] }
    /\ chargers \in ChargerTables
    /\ site_max_kw = I[100]
    /\ prices = <<>>
    /\ day_fetch = "unused" /\ cur_fetch = "unused"
    /\ bc_iter = 0 /\ bc_cur = None /\ dead = <<>> /\ stayed = {}
    /\ accepted = SeqToSet(clients)
    /\ sends = [w \in Websockets |-> 0]
    /\ LoopInit
    /\ dl_args = <<>> /\ dl_result = <<>>

\* Lines 139-146: explicit prices in the request, their timestamps made naive
\* (`p.ts.replace(tzinfo=None)`: the wall-clock reading stays); lines 178-183:
\* now made naive, make_plan called.  The routes keep their tzinfo (line 134).
ResolveExplicit ==
    /\ entry = "plan" /\ pc = "resolve"
    /\ req_prices # <<>>
    /\ prices' = InTz(req_prices, "ts", None)
    /\ now' = [now EXCEPT !.tzinfo = None]
    /\ pc' = "filter"
    /\ UNCHANGED <<entry, vehicles, chargers, routes, site_max_kw, loopVars,
                   reqVars, response, notifVars, dlVars>>

\* Lines 149-158: the day curve is available, the OMIE day file as parsed by
\* _omie_parse_prices being (ts, EUR/MWh) pairs sorted by ts; lines 178-183.
ResolveDayCurve ==
    /\ entry = "plan" /\ pc = "resolve"
    /\ req_prices = <<>>
    /\ day_fetch' = "curve"
    /\ prices' = ToPricePoints(get_prices_today(<< <<0, I[300]>>, <<60 * Minute, I[100]>> >>))
    /\ now' = [now EXCEPT !.tzinfo = None]
    /\ pc' = "filter"
    /\ UNCHANGED <<entry, vehicles, chargers, routes, site_max_kw, loopVars,
                   req_prices, cur_fetch, response, notifVars, dlVars>>

\* Line 149: requests.get raises inside _omie_fetch_csv (price_provider.py line 118);
\* nothing between there and the handler catches it.
ResolveDayRaises ==
    /\ entry = "plan" /\ pc = "resolve"
    /\ req_prices = <<>>
    /\ day_fetch' = "raises"
    /\ response' = "exception"
    /\ pc' = "done"
    /\ UNCHANGED <<entry, planVars, loopVars, req_prices, cur_fetch, notifVars, dlVars>>

\* Lines 159-168: no day curve (no file, or nothing parsable); the current price
\* is known, 250 EUR/MWh being the REN market price closest to now; lines 178-183.
ResolveCurrent ==
    /\ entry = "plan" /\ pc = "resolve"
    /\ req_prices = <<>>
    /\ day_fetch' = "empty"
    /\ cur_fetch' = "ok"
    /\ prices' = <<[ts |-> [now EXCEPT !.tzinfo = None],
                     eur_per_kwh |-> closest_price_eur_kwh(I[250])]>>
    /\ now' = [now EXCEPT !.tzinfo = None]
    /\ pc' = "filter"
    /\ UNCHANGED <<entry, vehicles, chargers, routes, site_max_kw, loopVars,
                   req_prices, response, notifVars, dlVars>>

\* Lines 169-176: no day curve and no current price: the hardcoded default;
\* lines 178-183.
ResolveDefault ==
    /\ entry = "plan" /\ pc = "resolve"
    /\ req_prices = <<>>
    /\ day_fetch' = "empty"
    /\ cur_fetch' = "not_ok"
    /\ prices' = <<[ts |-> [now EXCEPT !.tzinfo = None], eur_per_kwh |-> DefaultPrice]>>
    /\ now' = [now EXCEPT !.tzinfo = None]
    /\ pc' = "filter"
    /\ UNCHANGED <<entry, vehicles, chargers, routes, site_max_kw, loopVars,
                   req_prices, response, notifVars, dlVars>>

\* Lines 193, 202: no alerts, return the payload.
ReturnNoAlerts ==
    /\ entry = "plan" /\ pc = "planned"
    /\ alerts = <<>>
    /\ response' = "payload"
    /\ pc' = "done"
    /\ UNCHANGED <<entry, planVars, loopVars, reqVars, notifVars, dlVars>>

\* Lines 193-194 and broadcast line 17: `dead = []`, the iterator is created.
BroadcastBegin ==
    /\ entry = "plan" /\ pc = "planned"
    /\ alerts # <<>>
    /\ bc_iter' = 1
    /\ dead' = <<>>
    /\ stayed' = SeqToSet(clients)
    /\ pc' = "broadcast"
    /\ UNCHANGED <<entry, planVars, loopVars, reqVars, response, clients, bc_cur, sends,
                   accepted, dlVars>>

\* broadcast lines 18-20: the iterator yields c = clients[bc_iter] and
\* `await c.send_json(payload)` is entered; the handler is suspended in it.
BroadcastSend ==
    /\ pc = "broadcast"
    /\ bc_iter <= Len(clients)
    /\ bc_cur' = clients[bc_iter]
    /\ sends' = [sends EXCEPT ![clients[bc_iter]] = @ + 1]
    /\ bc_iter' = bc_iter + 1
    /\ pc' = "sending"
    /\ UNCHANGED <<entry, planVars, loopVars, reqVars, response, clients, dead, stayed,
                   accepted, dlVars>>

\* broadcast line 20: send_json returns.
SendReturns ==
    /\ pc = "sending"
    /\ bc_cur' = None
    /\ pc' = "broadcast"
    /\ UNCHANGED <<entry, planVars, loopVars, reqVars, response, clients, bc_iter, dead,
                   sends, stayed, accepted, dlVars>>

\* broadcast lines 21-22: send_json raises an Exception: `dead.append(c)`.
SendRaises ==
    /\ pc = "sending"
    /\ dead' = Append(dead, bc_cur)
    /\ bc_cur' = None
    /\ pc' = "broadcast"
    /\ UNCHANGED <<entry, planVars, loopVars, reqVars, response, clients, bc_iter,
                   sends, stayed, accepted, dlVars>>

\* broadcast line 20: the request task is cancelled while suspended in send_json;
\* CancelledError is not an Exception, so it leaves broadcast and the handler.
SendCancelled ==
    /\ pc = "sending"
    /\ bc_cur' = None
    /\ response' = "cancelled"
    /\ pc' = "done"
    /\ UNCHANGED <<entry, planVars, loopVars, reqVars, clients, bc_iter, dead,
                   sends, stayed, accepted, dlVars>>

Remove(s, x) ==
    IF \E i \in 1..Len(s) : s[i] = x
      THEN LET k == CHOOSE i \in 1..Len(s) : s[i] = x /\ \A j \in 1..(i - 1) : s[j] # x
           IN  SubSeq(s, 1, k - 1) \o SubSeq(s, k + 1, Len(s))
      ELSE s

RECURSIVE RemoveAll(_, _)
RemoveAll(s, ds) == IF ds = <<>> THEN s ELSE RemoveAll(Remove(s, Head(ds)), Tail(ds))

\* broadcast lines 18, 23-24 and main.py line 202: iterator exhausted, dead removed, return.
BroadcastEnd ==
    /\ pc = "broadcast"
    /\ bc_iter > Len(clients)
    /\ clients' = RemoveAll(clients, dead)
    /\ response' = "payload"
    /\ pc' = "done"
    /\ UNCHANGED <<entry, planVars, loopVars, reqVars, bc_iter, bc_cur, dead, sends, stayed,
                   accepted, dlVars>>

\* The handler only yields to other tasks inside `await c.send_json(payload)`:
\* connects and disconnects happen while pc = "sending".

\* ws_endpoint line 207, Notifier.connect: the socket is accepted and appended.
\* Every connection has a WebSocket object of its own, so connect is never
\* called on a socket it has accepted before; nothing limits the number of clients.
Connect ==
    /\ pc = "sending"
    /\ \E w \in Websockets \ accepted :
          /\ clients' = Append(clients, w)
          /\ accepted' = accepted \cup {w}
    /\ UNCHANGED <<entry, pc, planVars, loopVars, reqVars, response, bc_iter, bc_cur, dead,
                   sends, stayed, dlVars>>

\* ws_endpoint lines 211-212, Notifier.disconnect: the socket is removed.
Disconnect ==
    /\ pc = "sending"
    /\ \E w \in SeqToSet(clients) :
          /\ clients' = Remove(clients, w)
          /\ stayed' = stayed \ {w}
    /\ UNCHANGED <<entry, pc, planVars, loopVars, reqVars, response, bc_iter, bc_cur, dead,
                   sends, accepted, dlVars>>

PlanHandler ==
    \/ ResolveExplicit \/ ResolveDayCurve \/ ResolveDayRaises \/ ResolveCurrent
    \/ ResolveDefault \/ ReturnNoAlerts \/ BroadcastBegin \/ BroadcastSend \/ SendReturns
    \/ SendRaises \/ SendCancelled \/ BroadcastEnd

----------------------------------------------------------------------------
(* A call of should_delay_charging with the default margin and urgency.    *)

\* The arguments of the call; 0.23 against 0.20: 0.20 * (1.0 + 0.15) rounds below 0.23.
InitShouldDelay ==
    /\ entry = "should_delay" /\ pc = "call" /\ response = "none"
    /\ \E price_now, best_future_price \in
            {None, Float[-1, 10], Zero, MinSubnormal, Float[1, 10], Float[1, 5], Float[23, 100],
             Float[3, 10], NaN} :
       \E minutes_to_start \in {I[-10], I[30], I[60], I[61], I[120], NaN} :
       \E deficit_soc \in {Float[-1, 10], Zero, Float[1, 5], Float[7, 10], Inf} :
          dl_args = [price_now |-> price_now, best_future_price |-> best_future_price,
                     minutes_to_start |-> minutes_to_start, deficit_soc |-> deficit_soc]
    /\ dl_result = <<>>
    /\ now = DateTime(0, None) /\ vehicles = <<>> /\ chargers = <<>> /\ routes = <<>> /\ prices = <<>>
    /\ site_max_kw = Zero
    /\ LoopInit /\ IdleNotifier
    /\ req_prices = <<>> /\ day_fetch = "unused" /\ cur_fetch = "unused"

ShouldDelay ==
    /\ entry = "should_delay" /\ pc = "call"
    /\ dl_result' = <<should_delay_charging(dl_args.price_now, dl_args.best_future_price,
                                            dl_args.minutes_to_start, dl_args.deficit_soc)>>
    /\ pc' = "done"
    /\ UNCHANGED <<entry, planVars, loopVars, reqVars, response, notifVars, dl_args>>

----------------------------------------------------------------------------

Init == InitMakePlan \/ InitEdgePlan \/ InitAwarePlan \/ InitPlanRequest \/ InitShouldDelay

Next == MakePlan \/ PlanHandler \/ Connect \/ Disconnect \/ ShouldDelay

Spec == Init /\ [][Next]_vars

----------------------------------------------------------------------------
(* Properties.                                                             *)

Returned == total_kw # None

\* The filtering loop and the sort are done.
Filtered == pc \in {"loop", "assemble", "planned", "broadcast"} \/ Returned

\* The sum the claims take over the commands: floats added from the left.
FSumFrom[s \in Seq(Floats), i \in Nat, acc \in Floats] ==
    IF i > Len(s) THEN acc ELSE FSumFrom[s, i + 1, FAdd[acc, s[i]]]

FSum(s) == FSumFrom[s, 1, Zero]

SetKws == [i \in 1..Len(commands) |-> commands[i].set_kw]

CommandsFor(vid) == {i \in 1..Len(commands) : commands[i].vehicle_id = vid}
AlertsFor(vid)   == {i \in 1..Len(alerts) : alerts[i].vehicle_id = vid}
InputIdx(vid)    == CHOOSE i \in 1..Len(vehicles) : vehicles[i].id = vid

\* The numbers the claims name.
ClaimedThousand    == I[1000]
ClaimedSocHigh     == Float[4, 5]
ClaimedSocVeryHigh == Float[23, 25]
ClaimedHalf        == Float[1, 2]
ClaimedThreeTenths == Float[3, 10]
ClaimedFifteenPct  == Float[3, 20]
ClaimedSixty       == I[60]
ClaimedHorizon     == I[180]
ClaimedForty       == I[40]
ClaimedEps         == Float[1, 1000000]

\* C1 as stated, for the site caps that are not negative (below a negative cap
\* the claim fails on a plan without commands): the set_kw of the returned
\* plan's commands sum to at most site_max_kw + 0.01.
C1_Budget ==
    (Returned /\ FLe[Zero, site_max_kw]) => FLe[FSum(SetKws), FAdd[site_max_kw, Tol]]

\* C2: every command's set_kw is above 0.01 and at most the max_kw of the charger
\* its charger_id names.
C2_PerCharger ==
    \A i \in 1..Len(commands) :
        /\ HasCharger(commands[i].charger_id)
        /\ FLe[commands[i].set_kw, charger_by_id(commands[i].charger_id).max_kw]
        /\ FLt[Tol, commands[i].set_kw]

\* C2 witness: a command held at its charger's max_kw although the site budget and
\* the deadline would give more.
C2_Witness ==
    /\ Returned
    /\ \E k \in 1..Len(visits) :
          /\ visits[k].status = "planeado"
          /\ visits[k].final_kw = eligible[k].ch.max_kw
          /\ FLt[eligible[k].ch.max_kw, visits[k].remaining_before]
          /\ FLt[eligible[k].ch.max_kw, AvgKwNeeded(eligible[k])]

\* C3 as stated: every input vehicle id is a key of the returned plan's explanations,
\* also the eligible vehicles after the point where the budget is exhausted.
C3_Completeness ==
    Returned => \A i \in 1..Len(vehicles) : vehicles[i].id \in DOMAIN explanations

\* Urgency as the claim C4 writes it.
ClaimedUrgency(t) ==
    FAdd[FMul[Deficit(t), ClaimedThousand], FMax[Zero, FSub[ClaimedHorizon, MinutesTo(t)]]]

\* The claimed urgency of each triple of a list, in the list's order.
RECURSIVE ClaimedUrgencies(_)
ClaimedUrgencies(s) ==
    IF s = <<>> THEN <<>> ELSE <<ClaimedUrgency(Head(s))>> \o ClaimedUrgencies(Tail(s))

PlannedVisits == SelectSeq(visits, LAMBDA x : x.status = "planeado")

\* The statuses of a vehicle that was sized against the remaining site budget.
SizedStatuses == {"planeado", "nao_planeado"}

\* The eligible list is in descending urgency, ties in input order; the visits are
\* a prefix of it, each recorded in the explanations; the commands are in visiting
\* order.
VisitingOrder(u) ==
    /\ \A i, j \in 1..Len(eligible) :
          i < j =>
            \/ FLt[u[j], u[i]]
            \/ /\ u[j] = u[i]
               /\ InputIdx(eligible[i].v.id) < InputIdx(eligible[j].v.id)
    /\ Len(visits) = pos /\ pos <= Len(eligible)
    /\ \A k \in 1..Len(visits) :
          /\ visits[k].vehicle_id = eligible[k].v.id
          /\ visits[k].vehicle_id \in DOMAIN explanations
          /\ explanations[visits[k].vehicle_id].status = visits[k].status
    /\ Len(commands) = Len(PlannedVisits)
    /\ \A k \in 1..Len(commands) : commands[k].vehicle_id = PlannedVisits[k].vehicle_id

\* C4 as stated: the eligible vehicles are visited in descending urgency, ties in
\* input order, the commands are in visiting order, and when B is sized every
\* eligible A of strictly greater urgency has been sized before it, with a command
\* or the not_planned status.
C4_SizedBeforeSized ==
    Filtered =>
        LET u == ClaimedUrgencies(eligible)
        IN  /\ VisitingOrder(u)
            /\ \A a, b \in 1..Len(eligible) :
                  (FLt[u[b], u[a]] /\ b <= Len(visits) /\ visits[b].status \in SizedStatuses) =>
                      /\ a < b
                      /\ visits[a].status \in SizedStatuses
                      /\ (visits[a].status = "planeado") <=> (CommandsFor(eligible[a].v.id) # {})

\* The status the loop gives the triple t: ok without a deficit, else error when
\* the route start is not after now, else one of the sized statuses.
ClaimedOutcomes(t) ==
    IF FLe[Deficit(t), Zero] THEN {"ok"}
    ELSE IF FLe[MinutesTo(t), Zero] THEN {"erro"}
    ELSE SizedStatuses

\* C4 amended: the eligible vehicles are visited in descending urgency, ties in
\* input order, the commands are in visiting order, and when B is visited every
\* eligible A of strictly greater urgency has been visited before it and has its
\* outcome: ok when it has no deficit, else error when its route start is not after
\* now, else sized against the remaining budget with a command or the not_planned
\* status.
C4_UrgencyPriority ==
    Filtered =>
        LET u == ClaimedUrgencies(eligible)
        IN  /\ VisitingOrder(u)
            /\ \A a, b \in 1..Len(eligible) :
                  (FLt[u[b], u[a]] /\ b <= Len(visits)) =>
                      /\ a < b
                      /\ visits[a].status \in ClaimedOutcomes(eligible[a])
                      /\ (visits[a].status = "planeado") <=> (CommandsFor(eligible[a].v.id) # {})

\* C4 witness: the second input vehicle has strictly greater urgency, both were
\* sized against the budget, and its command comes first.
C4_Witness ==
    /\ Returned /\ Len(commands) = 2
    /\ commands[1].vehicle_id = "v2" /\ commands[2].vehicle_id = "v1"
    /\ FLt[ClaimedUrgency(eligible[2]), ClaimedUrgency(eligible[1])]

\* C5: should_delay_charging returns false whenever minutes_to_start <= 60, or
\* deficit <= 0, or a price is None; and make_plan with no prices records
\* price_delay_applied = false for every visited vehicle and leaves the requested
\* power of every sized vehicle at clamp(min(avg, max_kw, remaining), 0, max_kw).
C5_DeferralSafety ==
    /\ (entry = "should_delay" /\ pc = "done") =>
          ((\/ FLe[dl_args.minutes_to_start, ClaimedSixty]
            \/ FLe[dl_args.deficit_soc, Zero]
            \/ dl_args.price_now = None
            \/ dl_args.best_future_price = None) => dl_result = <<FALSE>>)
    /\ (entry = "make_plan" /\ prices = <<>>) =>
          \A k \in 1..Len(visits) :
              /\ ~visits[k].delay_applied
              /\ ~explanations[visits[k].vehicle_id].price_delay_applied
              /\ visits[k].status \in {"planeado", "nao_planeado"} =>
                    LET t == eligible[k]
                    IN  visits[k].requested_kw =
                          FMax[Zero, FMin[t.ch.max_kw,
                                FMin[FMin[AvgKwNeeded(t), t.ch.max_kw],
                                     visits[k].remaining_before]]]

\* C5 witness: a call with a deficit, exactly 60 minutes left and a current price far
\* above the best future price returned false.
C5_Witness ==
    /\ entry = "should_delay" /\ pc = "done"
    /\ dl_args.minutes_to_start = I[60]
    /\ FLt[Zero, dl_args.deficit_soc]
    /\ dl_args.price_now = Float[3, 10] /\ dl_args.best_future_price = Float[1, 10]
    /\ dl_result = <<FALSE>>

\* C6 as stated: every eligible vehicle with a deficit whose route start is at or
\* before now has no command, the error status and exactly one alert naming it.
C6_OverdueRoute ==
    Returned =>
        \A i \in 1..Len(eligible) :
            LET t == eligible[i]
            IN  (FLt[Zero, Deficit(t)] /\ FLe[MinutesTo(t), Zero]) =>
                    /\ CommandsFor(t.v.id) = {}
                    /\ t.v.id \in DOMAIN explanations
                    /\ explanations[t.v.id].status = "erro"
                    /\ Cardinality(AlertsFor(t.v.id)) = 1

\* The eligibility conditions and the reason of the first failing one, as C7 lists
\* them; the charger a charger id names is the last one in the list with that id.
ClaimedExists(v) == \E i \in 1..Len(chargers) : chargers[i].id = v.charger_id

ClaimedCharger(v) == chargers[Max({i \in 1..Len(chargers) : chargers[i].id = v.charger_id})]

ClaimedEligible(v) ==
    /\ v.state = "DISPONIVEL"
    /\ v.charger_id # NoCharger
    /\ ClaimedExists(v) /\ ClaimedCharger(v).enabled
    /\ \E i \in 1..Len(routes) : routes[i].vehicle_id = v.id

ClaimedReason(v) ==
    CASE v.state # "DISPONIVEL" -> "estado"
      [] v.state = "DISPONIVEL" /\ v.charger_id = NoCharger -> "sem_carregador"
      [] v.state = "DISPONIVEL" /\ v.charger_id # NoCharger /\ ~ClaimedExists(v)
         -> "carregador_nao_existe"
      [] v.state = "DISPONIVEL" /\ v.charger_id # NoCharger /\ ClaimedExists(v)
            /\ ~ClaimedCharger(v).enabled
         -> "carregador_desativado"
      [] OTHER -> "sem_rota"

\* The vehicles that were sized against the remaining site budget.
SizedIds == {visits[k].vehicle_id : k \in {j \in 1..Len(visits) : visits[j].status \in SizedStatuses}}

\* Any vehicle failing a condition never gets a command and is recorded as ignored
\* with the reason of the first failing condition.
IgnoredAsClaimed(v) ==
    ~ClaimedEligible(v) =>
        /\ CommandsFor(v.id) = {}
        /\ v.id \in DOMAIN explanations
        /\ explanations[v.id].status = "ignorado"
        /\ explanations[v.id].motivo = ClaimedReason(v)

\* C7 as stated: in the returned plan a vehicle was sized for allocation iff it is
\* available, plugged into an existing enabled charger and has a route; any other
\* vehicle never gets a command and is recorded as ignored with the reason of the
\* first failing condition.
C7_SizedIffEligible ==
    Returned =>
        \A i \in 1..Len(vehicles) :
            /\ (vehicles[i].id \in SizedIds) <=> ClaimedEligible(vehicles[i])
            /\ IgnoredAsClaimed(vehicles[i])

\* No two vehicles of the call share an id.
DistinctVehicleIds == \A i, j \in 1..Len(vehicles) : vehicles[i].id = vehicles[j].id => i = j

\* C7 amended: after filtering, a vehicle is in the eligible list, from which alone
\* the loop takes the vehicles it visits, iff it is available, plugged into an
\* existing enabled charger and has a route; a visited vehicle is sized iff it has
\* a deficit and its route start is after now; with distinct vehicle ids, any
\* vehicle that is not eligible never gets a command and is recorded as ignored
\* with the reason of the first failing condition.
C7_EligibilityFilter ==
    Filtered =>
        /\ \A i \in 1..Len(vehicles) :
              /\ (\E k \in 1..Len(eligible) : eligible[k].v = vehicles[i])
                    <=> ClaimedEligible(vehicles[i])
              /\ DistinctVehicleIds => IgnoredAsClaimed(vehicles[i])
        /\ \A k \in 1..Len(visits) :
              /\ visits[k].vehicle_id = eligible[k].v.id
              /\ (visits[k].status \in SizedStatuses)
                    <=> (FLt[Zero, Deficit(eligible[k])] /\ FLt[Zero, MinutesTo(eligible[k])])

\* C7 witness: a returned plan with a command for one vehicle while the other, in the
\* wrong state and also unplugged, is ignored for its state.
C7_Witness ==
    /\ Returned /\ Len(vehicles) = 2 /\ Len(commands) = 1
    /\ \E i \in 1..2 :
          /\ vehicles[i].state = "EM_ROTA" /\ vehicles[i].charger_id = NoCharger
          /\ explanations[vehicles[i].id].motivo = "estado"

\* The vehicle of the k-th visit got a command, was not deferred and is not curtailed.
PlainCommand(k) ==
    /\ visits[k].status = "planeado" /\ ~visits[k].delay_applied
    /\ FLt[eligible[k].v.soc, ClaimedSocHigh] /\ FLt[eligible[k].v.temp_c, ClaimedForty]

\* The single-vehicle scenario of C8 gives set_kw = 25 and total_kw = 25.
ScenarioGives25 ==
    ( /\ entry = "make_plan" /\ Returned /\ Len(vehicles) = 1 /\ Len(eligible) = 1
      /\ prices = <<>> /\ site_max_kw = I[100]
      /\ vehicles[1].soc = Float[3, 10] /\ vehicles[1].temp_c = I[25]
      /\ vehicles[1].battery_kwh = I[100]
      /\ eligible[1].rt.required_soc_min = Float[4, 5] /\ MinutesTo(eligible[1]) = I[120]
      /\ eligible[1].ch.max_kw = I[50] ) =>
        /\ Len(commands) = 1 /\ commands[1].set_kw = I[25]
        /\ total_kw = I[25]

\* C8 as stated: a visited vehicle that got a command, was not deferred and is not
\* curtailed (soc < 0.80, temperature < 40) has set_kw = min(deficit * battery_kwh /
\* (minutes_to_start / 60), charger.max_kw, remaining_kw at its evaluation); the
\* single-vehicle scenario gives set_kw = 25 and total_kw = 25.
C8_SizingByHours ==
    /\ \A k \in 1..Len(visits) :
          LET t == eligible[k]
          IN  PlainCommand(k) =>
                  \E c \in CommandsFor(t.v.id) :
                      commands[c].set_kw =
                          FMin[FMin[FDiv[FMul[Deficit(t), t.v.battery_kwh],
                                         FDiv[MinutesTo(t), ClaimedSixty]],
                                    t.ch.max_kw],
                               visits[k].remaining_before]
    /\ ScenarioGives25

\* C8 amended: a visited vehicle that got a command, was not deferred and is not
\* curtailed (soc < 0.80, temperature < 40) has set_kw = clamp(min(deficit *
\* battery_kwh / max(minutes_to_start / 60, 1e-6), charger.max_kw, remaining_kw at
\* its evaluation), 0, charger.max_kw), min and max as Python's; the single-vehicle
\* scenario (soc 0.3, required 0.8, 100 kWh, 120 minutes, charger 50 kW, site cap
\* 100, no prices) gives set_kw = 25 and total_kw = 25.
C8_DeadlineSizing ==
    /\ \A k \in 1..Len(visits) :
          LET t == eligible[k]
          IN  PlainCommand(k) =>
                  \E c \in CommandsFor(t.v.id) :
                      commands[c].set_kw =
                          FMax[Zero, FMin[t.ch.max_kw,
                              FMin[FMin[FDiv[FMul[Deficit(t), t.v.battery_kwh],
                                             FMax[FDiv[MinutesTo(t), ClaimedSixty], ClaimedEps]],
                                        t.ch.max_kw],
                                   visits[k].remaining_before]]]
    /\ ScenarioGives25

\* C8 witness: the scenario's plan was returned with a command of 25 kW.
C8_Witness ==
    /\ entry = "make_plan" /\ Returned /\ Len(vehicles) = 1 /\ Len(commands) = 1
    /\ prices = <<>> /\ site_max_kw = I[100]
    /\ vehicles[1].soc = Float[3, 10] /\ eligible[1].ch.max_kw = I[50]
    /\ MinutesTo(eligible[1]) = I[120]
    /\ commands[1].set_kw = I[25]

\* C9 as stated: whatever the request and the price fetches do, the /plan handler
\* calls make_plan with a non-empty price list and returns a plan.
C9_PriceFallback ==
    entry = "plan" =>
        /\ pc \notin {"resolve", "done"} => prices # <<>>
        /\ (pc = "done" /\ response # "cancelled") =>
                (response = "payload" /\ prices # <<>> /\ Returned)

\* C10 as stated: when the plan has alerts the handler broadcasts before returning,
\* and every listener subscribed during the whole broadcast is sent the payload
\* exactly once.
C10_AlertBroadcast ==
    (entry = "plan" /\ pc = "done" /\ response = "payload" /\ alerts # <<>>) =>
        /\ bc_iter > 0
        /\ \A w \in stayed : sends[w] = 1

\* C11 as stated: whenever should_delay_charging returns true, and whenever make_plan
\* marks a visit price_delay_applied (forcing its requested power to 0), the best
\* price in the window [now, route start] is strictly lower than the price now, for
\* zero and negative prices too.
C11_DeferOnlyIfCheaper ==
    /\ (entry = "should_delay" /\ pc = "done" /\ dl_result = <<TRUE>>) =>
          FLt[dl_args.best_future_price, dl_args.price_now]
    /\ \A k \in 1..Len(visits) :
          visits[k].delay_applied =>
              /\ FLt[BestPrice(eligible[k]), PriceNow]
              /\ visits[k].status \in {"planeado", "nao_planeado"} =>
                    visits[k].requested_kw = Zero

\* The curtailment factor as C12 states it.
ClaimedFactor(v) ==
    FMul[FMul[IF FLe[ClaimedSocHigh, v.soc] THEN ClaimedHalf ELSE One,
              IF FLe[ClaimedSocVeryHigh, v.soc] THEN ClaimedThreeTenths ELSE One],
         IF FLe[ClaimedForty, v.temp_c] THEN ClaimedHalf ELSE One]

\* C12 as stated: every vehicle that reaches sizing has final_kw = clamp(requested_kw
\* * f, 0, charger.max_kw), f the product of 0.5 (soc >= 0.80), 0.3 (soc >= 0.92)
\* and 0.5 (temperature >= 40); soc >= 0.92 below 40 degrees gives 0.15 of
\* requested_kw, and final_kw never exceeds requested_kw.
C12_ProductFactor ==
    \A k \in 1..Len(visits) :
        visits[k].status \in SizedStatuses =>
            LET t   == eligible[k]
                req == visits[k].requested_kw
                fin == visits[k].final_kw
            IN  /\ fin = FMax[Zero, FMin[t.ch.max_kw, FMul[req, ClaimedFactor(t.v)]]]
                /\ FLe[fin, req]
                /\ (FLe[ClaimedSocVeryHigh, t.v.soc] /\ FLt[t.v.temp_c, ClaimedForty]) =>
                      fin = FMul[req, ClaimedFifteenPct]
                /\ visits[k].status = "planeado" =>
                      \E c \in CommandsFor(t.v.id) : commands[c].set_kw = fin

\* requested_kw multiplied by each factor that applies, one after the other.
ClaimedCurtailed(v, req) ==
    FMul[FMul[FMul[req, IF FLe[ClaimedSocHigh, v.soc] THEN ClaimedHalf ELSE One],
              IF FLe[ClaimedSocVeryHigh, v.soc] THEN ClaimedThreeTenths ELSE One],
         IF FLe[ClaimedForty, v.temp_c] THEN ClaimedHalf ELSE One]

\* 2^-1021, twice the smallest normal float: from here upwards x * 0.5 is exact
TinyKw == [s |-> 1, m |-> Pow52, e |-> -1073]

\* C12 amended: every vehicle that reaches sizing has final_kw = clamp(kw, 0,
\* charger.max_kw), kw being requested_kw multiplied in turn, each product rounded
\* to a float, by 0.5 (soc >= 0.80), 0.3 (soc >= 0.92) and 0.5 (temperature >= 40);
\* soc >= 0.92 below 40 degrees gives 0.15 of requested_kw when requested_kw is 0
\* or at least 2^-1021, and final_kw never exceeds requested_kw.
C12_Curtailment ==
    \A k \in 1..Len(visits) :
        visits[k].status \in SizedStatuses =>
            LET t   == eligible[k]
                req == visits[k].requested_kw
                fin == visits[k].final_kw
            IN  /\ fin = FMax[Zero, FMin[t.ch.max_kw, ClaimedCurtailed(t.v, req)]]
                /\ FLe[fin, req]
                /\ ( /\ FLe[ClaimedSocVeryHigh, t.v.soc] /\ FLt[t.v.temp_c, ClaimedForty]
                     /\ (req = Zero \/ FLe[TinyKw, req]) ) =>
                      fin = FMul[req, ClaimedFifteenPct]
                /\ visits[k].status = "planeado" =>
                      \E c \in CommandsFor(t.v.id) : commands[c].set_kw = fin

\* C12 witness: a vehicle at soc 0.95 and below 40 degrees got a command of 0.15 of a
\* positive requested power.
C12_Witness ==
    \E k \in 1..Len(visits) :
        /\ visits[k].status = "planeado"
        /\ eligible[k].v.soc = Float[19, 20] /\ eligible[k].v.temp_c = I[25]
        /\ FLt[Zero, visits[k].requested_kw]
        /\ visits[k].final_kw = FMul[visits[k].requested_kw, Float[3, 20]]
        /\ \E c \in CommandsFor(eligible[k].v.id) : commands[c].set_kw = visits[k].final_kw

\* remaining_kw right after the k-th visit.
RemainingAfter(k) ==
    IF k < Len(visits) THEN visits[k + 1].remaining_before ELSE remaining_kw

\* C13 as stated: the returned total_kw is the sum of set_kw over the commands;
\* remaining_kw starts at site_max_kw whatever vehicles were ignored, a visit that
\* appends a command lowers it by exactly that command's set_kw, and a visit ending
\* with status ok, error or not_planned appends no command and leaves it unchanged.
C13_ExactTotal ==
    Filtered =>
        /\ (IF visits = <<>> THEN remaining_kw ELSE visits[1].remaining_before) = site_max_kw
        /\ \A k \in 1..Len(visits) :
              IF visits[k].status = "planeado"
                THEN /\ Cardinality(CommandsFor(visits[k].vehicle_id)) = 1
                     /\ \A c \in CommandsFor(visits[k].vehicle_id) :
                           RemainingAfter(k) = FSub[visits[k].remaining_before, commands[c].set_kw]
                ELSE /\ visits[k].status \in {"ok", "erro", "nao_planeado"}
                     /\ CommandsFor(visits[k].vehicle_id) = {}
                     /\ RemainingAfter(k) = visits[k].remaining_before
        /\ \A i \in 1..Len(vehicles) :
              (vehicles[i].id \in DOMAIN explanations
                 /\ explanations[vehicles[i].id].status = "ignorado") =>
                    /\ CommandsFor(vehicles[i].id) = {}
                    /\ \A k \in 1..Len(visits) : visits[k].vehicle_id # vehicles[i].id
        /\ Returned => total_kw = FSum(SetKws)

\* 2^-50: eight units in the last place of a float in [1, 2)
RoundingSlack == [s |-> 1, m |-> Pow52, e |-> -102]

\* 2^1023, half of what overflows
HugeKw == [s |-> 1, m |-> Pow52, e |-> 971]

\* |site_max_kw| + the sum of set_kw over the commands
BudgetScale == FAdd[FAbs[site_max_kw], FSum(SetKws)]

\* C13 amended: the returned total_kw is the float site_max_kw - remaining_kw; when
\* |site_max_kw| plus the sum of set_kw over the commands is at most 2^1023 (so
\* neither is NaN or infinite) it is within 2^-50 times that quantity, per command,
\* of the sum of set_kw; remaining_kw starts at site_max_kw whatever vehicles were
\* ignored, a visit that appends a command lowers it by the float subtraction of
\* exactly that command's set_kw, and a visit ending with status ok, error or
\* not_planned appends no command and leaves it unchanged.
C13_BudgetBookkeeping ==
    Filtered =>
        /\ (IF visits = <<>> THEN remaining_kw ELSE visits[1].remaining_before) = site_max_kw
        /\ \A k \in 1..Len(visits) :
              IF visits[k].status = "planeado"
                THEN /\ Cardinality(CommandsFor(visits[k].vehicle_id)) = 1
                     /\ \A c \in CommandsFor(visits[k].vehicle_id) :
                           RemainingAfter(k) = FSub[visits[k].remaining_before, commands[c].set_kw]
                ELSE /\ visits[k].status \in {"ok", "erro", "nao_planeado"}
                     /\ CommandsFor(visits[k].vehicle_id) = {}
                     /\ RemainingAfter(k) = visits[k].remaining_before
        /\ \A i \in 1..Len(vehicles) :
              (vehicles[i].id \in DOMAIN explanations
                 /\ explanations[vehicles[i].id].status = "ignorado") =>
                    /\ CommandsFor(vehicles[i].id) = {}
                    /\ \A k \in 1..Len(visits) : visits[k].vehicle_id # vehicles[i].id
        /\ Returned =>
              /\ total_kw = FSub[site_max_kw, remaining_kw]
              /\ FLe[BudgetScale, HugeKw] =>
                    FLe[FAbs[FSub[total_kw, FSum(SetKws)]],
                        FMul[I[Len(commands)], FMul[RoundingSlack, BudgetScale]]]

\* C13 witness: a returned plan whose only command, curtailed to 0.15 of the requested
\* power, lowered remaining_kw by its set_kw, and whose total_kw is not that set_kw.
C13_Witness ==
    /\ Returned /\ Len(visits) = 1 /\ Len(commands) = 1
    /\ visits[1].status = "planeado"
    /\ FLt[visits[1].final_kw, visits[1].requested_kw]
    /\ remaining_kw = FSub[site_max_kw, commands[1].set_kw]
    /\ total_kw # commands[1].set_kw

====
